---- MODULE Spec2Model ----
(***************************************************************************)
(* A model of pwnlib/tubes/process.py: the `process` tube, which spawns a  *)
(* child with subprocess.Popen and exposes it as a byte stream.            *)
(*                                                                         *)
(* Spec        the handle after construction: poll, recv_raw, send_raw,    *)
(*             can_recv_raw, connected_raw, shutdown_raw, close and kill,  *)
(*             interleaved with the child's own steps (write, close its    *)
(*             output, exit).                                              *)
(* SpecLaunch  the constructor: validation, pty allocation, the candidate *)
(*             loop (native executable, then the emulator on ENOEXEC), the *)
(*             duplication of the pty master and the non-blocking stdout.  *)
(* SpecValidate  _validate on bounded argv and environment arguments.      *)
(* SpecPreexec   _preexec_fn, block by block, in the forked child.         *)
(* SpecLeak      leak(address, count).                                     *)
(*                                                                         *)
(* Bytes are modelled by their number: the claims are about how many bytes *)
(* are delivered and when EOFError is raised, not about their values.      *)
(***************************************************************************)
EXTENDS Integers, Sequences, FiniteSets, TLC

\* ------------------------------------------------------------------ bounds
\* Most bytes the child's output can hold unread.
MaxBuf == 2
\* Longest string among the argv entries, environment keys and values.
MaxLen == 3
\* Largest `count` passed to leak, and most bytes readable at an address.
MaxCount == 3
\* Largest `numb` passed to recv_raw.
MaxNumb == 2
\* Most successful writes to the child's stdin.
MaxSent == 2

\* --------------------------------------------------------------- constants
\* Popen.kill() sends SIGKILL; Popen reports death by signal n as -n.
SIGKILL == 9
\* Exit codes a child can end with by itself.
ExitCodes == {0, 1}

\* Python's None / a present value, for returncode and poll()'s result.
None == <<>>
Some(v) == <<v>>

VARIABLES
    \* --- the handle (process object)
    proc,           \* "None" | "Popen": self.proc
    stdin_closed,   \* self.proc.stdin.closed
    stdout_closed,  \* self.proc.stdout.closed
    stderr,         \* "none" (self.proc.stderr is None) | "open" | "closed"
    returncode,     \* self.proc.returncode: None | Some(status)
    stop_noticed,   \* self._stop_noticed
    \* --- the child and the kernel objects between it and the handle
    child,          \* "running" | "zombie" (exited, not waited for) | "reaped"
    child_status,   \* the wait status of a zombie or reaped child
    outbuf,         \* bytes written by the child and not yet read
    out_open,       \* some write end of the child's output is still open
    in_open,        \* the read end of the child's stdin is still open
    stdout_kind,    \* "pipe" | "pty": what self.proc.stdout reads from
    killable,       \* FALSE: os.kill on the child fails with EPERM (the child
                    \* changed its real uid, as sudo and su do)
    \* --- what the handle has done (history)
    notes,          \* exit notifications emitted (self.info of poll and close)
    signals,        \* termination signals delivered by proc.kill()
    written,        \* successful writes to the child's stdin
    seen,           \* the first non-None value a poll() returned
    last,           \* the last call on the handle: its name, result and pre-state
    intervened,     \* the caller has called close(), kill() or
                    \* shutdown_raw('recv') itself
    \* --- the constructor (SpecLaunch)
    l_pc,           \* where __init__ is: "start" | "handles" | "candidates" |
                    \* "loop" | "spawned" | "nonblock" | "done" | "raised"
                    \* ("off" under Spec)
    l_mode,         \* "shell" (no validation) | "valid" | "invalid" (argv, env
                    \* or executable that _validate rejects)
    l_qemu,         \* get_qemu_user() found an emulator
    l_outcome,      \* l_outcome[c]: what Popen does for candidate c: "ok", or
                    \* the errno of the OSError it raises
    l_prefixes,     \* the candidate list
    l_next,         \* index of the next candidate to try
    l_attempts,     \* candidates handed to Popen so far, in order
    l_exception,    \* the last OSError caught: None | Some(errno name)
    l_raised,       \* what __init__ raised: None | Some(name)
    l_sel,          \* the arguments stdin, stdout, stderr: "PIPE" | "PTY" |
                    \* "FD" (a descriptor or file passed through) | "STDOUT"
    l_pty,          \* self.pty: None | Some(slot)
    l_handles,      \* the locals stdin, stdout, stderr: a selector or, after
                    \* _handles, the slave descriptor
    l_master,       \* the local master: None | Some(descriptor)
    l_slave,        \* the local slave: None | Some(descriptor)
    l_streams,      \* self.proc.stdin, .stdout, .stderr: "None" | "pipe" |
                    \* the descriptor the stream was opened on
    l_open,         \* descriptors the constructor opened and has not closed
    l_log,          \* its descriptor calls in order: openpty, dup, close
    \* --- _validate (SpecValidate)
    v_pc,           \* where _validate is: "argv" | "executable" | "env" |
                    \* "done" | "raised" ("off" elsewhere)
    v_in,           \* the arguments as the caller passed them
    v_argv,         \* the local argv
    v_env,          \* the local env: None | Some(mapping object)
    v_environ,      \* os.environ
    v_error,        \* the message of the log.error that ended it: None | Some
    \* --- _preexec_fn, run in the forked child (SpecPreexec)
    p_pc,           \* the next block of _preexec_fn: "tty" | "aslr" | "core" |
                    \* "filter" | "setuid" | "hook" | "returned" | "raised"
    p_pty,          \* self.pty is not None
    p_aslr,         \* self.aslr
    p_setuid,       \* self._setuid: "None" | "True" | "False"
    p_linux,        \* context.os == 'linux'
    p_tty,          \* what the terminal does in _pty_make_controlling_tty:
                    \* "none" (every call succeeds) or the call that goes wrong
    p_fail,         \* the calls that raise in this child
    p_trace,        \* the calls made so far, in order
    p_raised,       \* the call whose exception left _preexec_fn: None | Some
    \* --- leak (SpecLeak)
    k_pc,           \* "call" (leak about to be called) | "done" ("off" elsewhere)
    k_qemu,         \* /proc/<pid>/exe resolves to a qemu- binary
    k_count,        \* the argument count
    k_avail,        \* readable bytes of the child's memory at `address`
    k_io,           \* "ok", or the call on /proc/<pid>/mem that fails:
                    \* "open" | "seek" | "read"
    k_result        \* what leak did: its outcome, the length of the bytes
                    \* returned, whether memory was read

handleVars == <<proc, stdin_closed, stdout_closed, stderr, returncode, stop_noticed>>
childVars == <<child, child_status, outbuf, out_open, in_open, stdout_kind, killable>>
histVars == <<notes, signals, written, seen, last, intervened>>
ptyVars == <<l_sel, l_pty, l_handles, l_master, l_slave, l_streams, l_open, l_log>>
launchVars == <<l_pc, l_mode, l_qemu, l_outcome, l_prefixes, l_next, l_attempts,
                l_exception, l_raised, ptyVars>>
validateVars == <<v_pc, v_in, v_argv, v_env, v_environ, v_error>>
preexecVars == <<p_pc, p_pty, p_aslr, p_setuid, p_linux, p_tty, p_fail, p_trace,
                 p_raised>>
leakVars == <<k_pc, k_qemu, k_count, k_avail, k_io, k_result>>
helperVars == <<validateVars, preexecVars, leakVars>>
vars == <<handleVars, childVars, histVars, launchVars, helperVars>>

\* The handle, the child and the counters as one value, so that a method is
\* a function from worlds to worlds and a call inside a method is an
\* application.
World ==
    [proc |-> proc, stdin_closed |-> stdin_closed, stdout_closed |-> stdout_closed,
     stderr |-> stderr, returncode |-> returncode, stop_noticed |-> stop_noticed,
     child |-> child, child_status |-> child_status, outbuf |-> outbuf,
     out_open |-> out_open, in_open |-> in_open, stdout_kind |-> stdout_kind,
     killable |-> killable, notes |-> notes, signals |-> signals,
     written |-> written]

SetWorld(w) ==
    /\ proc' = w.proc
    /\ stdin_closed' = w.stdin_closed
    /\ stdout_closed' = w.stdout_closed
    /\ stderr' = w.stderr
    /\ returncode' = w.returncode
    /\ stop_noticed' = w.stop_noticed
    /\ child' = w.child
    /\ child_status' = w.child_status
    /\ outbuf' = w.outbuf
    /\ out_open' = w.out_open
    /\ in_open' = w.in_open
    /\ stdout_kind' = w.stdout_kind
    /\ killable' = w.killable
    /\ notes' = w.notes
    /\ signals' = w.signals
    /\ written' = w.written

Min(a, b) == IF a < b THEN a ELSE b

\* ---------------------------------------------------- results of a call
\* What a method gives back: the world it leaves, how it ended
\* ("ok" | "EOFError" | "True" | "False" | "empty" | "data"), the number of
\* bytes returned, poll()'s value, and which way select and read went.
Ret(w, out) ==
    [w |-> w, out |-> out, numb |-> 0, n |-> 0, rv |-> None, sel |-> "-", rd |-> "-"]

\* ------------------------------------------------------------- poll
\* subprocess.Popen.poll(): waitpid(WNOHANG) unless a status is cached.
proc_poll(w) ==
    IF w.returncode = None /\ w.child = "zombie"
    THEN [w EXCEPT !.returncode = Some(w.child_status), !.child = "reaped"]
    ELSE w

\* poll without the test of the flag: it notifies whenever a status is there.
poll_notices_always(w) == w.returncode # None

\* poll's condition for the one-time notification.
poll_notices(w) == w.returncode # None /\ ~w.stop_noticed

\* poll(): refresh the status, notify once, leave the status cached.
poll(w) ==
    LET w1 == proc_poll(w)
    IN  IF poll_notices(w1)
        THEN [w1 EXCEPT !.stop_noticed = TRUE, !.notes = @ + 1]
        ELSE w1

\* poll with its `return` inside the `if`: None unless this call noticed.
poll_result_in_if(w) ==
    IF poll_notices(proc_poll(w)) THEN poll(w).returncode ELSE None

\* What poll() returns when called in world w: `return self.proc.returncode`,
\* after the refresh.
poll_result(w) == poll(w).returncode

\* ---------------------------------------------------- connected_raw
\* connected_raw looking at the other stream for "send" and "recv".
connected_raw_swapped(w, direction) ==
    CASE direction = "any"  -> poll(w).returncode = None
      [] direction = "send" -> ~w.stdout_closed
      [] direction = "recv" -> ~w.stdin_closed

\* connected_raw taking an exited child for a closed recv direction.
connected_raw_exited(w, direction) ==
    CASE direction = "any"  -> poll(w).returncode = None
      [] direction = "send" -> ~w.stdin_closed
      [] direction = "recv" -> ~w.stdout_closed /\ w.returncode = None

\* For "any" the answer comes from poll(), whose effect on the world the
\* caller applies with poll(w).
connected_raw(w, direction) ==
    CASE direction = "any"  -> poll_result(w) = None
      [] direction = "send" -> ~w.stdin_closed
      [] direction = "recv" -> ~w.stdout_closed

\* ------------------------------------------------------------ close
\* The loop closing stdin, stdout and stderr (what was never a stream is
\* skipped). Unread output goes with the descriptor.
close_fds(w) ==
    [w EXCEPT !.stdin_closed = TRUE,
              !.stdout_closed = TRUE,
              !.outbuf = 0,
              !.stderr = IF @ = "none" THEN "none" ELSE "closed"]

\* close without its guard: it kills whatever poll() found.
close_always_kills(w) == TRUE

\* close's guard on the forced termination.
close_must_kill(w) == ~w.stop_noticed

\* try: proc.kill(); proc.wait(); _stop_noticed = True; info(...)
\* except OSError: pass.
\* os.kill on a child the caller may not signal raises EPERM, and the
\* except clause leaves everything as it was. Otherwise the signal is
\* delivered and wait() reaps: the status is the signal's, unless the child
\* exited by itself after poll() looked (raced = Some(code)), and then its
\* own. wait() keeps a status that is already cached.
kill_wait(w, raced) ==
    IF ~w.killable
    THEN w
    ELSE LET status == IF w.child = "running"
                       THEN (IF raced = None THEN -SIGKILL ELSE raced[1])
                       ELSE w.child_status
         IN  [w EXCEPT !.signals = @ + 1,
                       !.child = "reaped",
                       !.child_status = status,
                       !.out_open = FALSE,
                       !.in_open = FALSE,
                       !.returncode = IF @ = None THEN Some(status) ELSE @,
                       !.stop_noticed = TRUE,
                       !.notes = @ + 1]

close(w, raced) ==
    IF w.proc = "None"
    THEN w
    ELSE LET w1 == poll(w)
             w2 == close_fds(w1)
         IN  IF close_must_kill(w2) THEN kill_wait(w2, raced) ELSE w2

kill(w, raced) == close(w, raced)

\* ----------------------------------------------------- shutdown_raw
\* The test with `True in (...)`: one closed stream is enough.
either_closed(w) == w.stdin_closed \/ w.stdout_closed

\* The test that turns a shutdown into a full close.
both_closed(w) == w.stdin_closed /\ w.stdout_closed

\* shutdown_raw closing the stream of the other direction.
shutdown_raw_other(w, direction, raced) ==
    LET w1 == IF direction = "recv" THEN [w EXCEPT !.stdin_closed = TRUE] ELSE w
        w2 == IF direction = "send"
              THEN [w1 EXCEPT !.stdout_closed = TRUE, !.outbuf = 0]
              ELSE w1
    IN  IF both_closed(w2) THEN close(w2, raced) ELSE w2

shutdown_raw(w, direction, raced) ==
    LET w1 == IF direction = "send" THEN [w EXCEPT !.stdin_closed = TRUE] ELSE w
        w2 == IF direction = "recv"
              THEN [w1 EXCEPT !.stdout_closed = TRUE, !.outbuf = 0]
              ELSE w1
    IN  IF both_closed(w2) THEN close(w2, raced) ELSE w2

\* tube.shutdown(direction), the base class's method recv_raw calls: it
\* hands the direction to shutdown_raw.
shutdown(w, direction, raced) == shutdown_raw(w, direction, raced)

\* ----------------------------------------------------- can_recv_raw
\* What select.select([stdout], [], [], timeout) can do in world w: it
\* returns stdout at once when bytes are buffered or every write end is
\* closed (end of file is readable); otherwise it waits, and the wait ends
\* by the timeout (never, for timeout None) or by an OSError: a signal
\* interrupting the wait makes select raise InterruptedError (EINTR).
select_outcomes(w, timeout) ==
    IF w.outbuf > 0 \/ ~w.out_open
    THEN {"ready"}
    ELSE IF timeout = "None" THEN {"oserror"} ELSE {"timeout", "oserror"}

\* can_recv_raw taking a timed-out select for a ready one.
can_recv_raw_timeout_ready(w, sel) ==
    IF w.stdout_closed
    THEN "False"
    ELSE CASE sel = "ready"   -> "True"
           [] sel = "timeout" -> "True"
           [] sel = "oserror" -> "EOFError"

\* can_recv_raw raising on a closed stdout instead of answering.
can_recv_raw_closed_raises(w, sel) ==
    IF w.stdout_closed
    THEN "EOFError"
    ELSE CASE sel = "ready"   -> "True"
           [] sel = "timeout" -> "False"
           [] sel = "oserror" -> "EOFError"

\* "True" | "False" | "EOFError". select.error is OSError in Python 3, so
\* the first except clause takes every error of select.
can_recv_raw(w, sel) ==
    IF ~connected_raw(w, "recv")
    THEN "False"
    ELSE CASE sel = "ready"   -> "True"
           [] sel = "timeout" -> "False"
           [] sel = "oserror" -> "EOFError"

\* --------------------------------------------------------- recv_raw
\* stdout.read(numb) once select said ready: buffered bytes if any; at end
\* of file a pipe reads b'' and a pty master fails with EIO.
read_outcome(w) ==
    IF w.outbuf > 0 THEN "data"
    ELSE IF w.stdout_kind = "pty" THEN "ioerror" ELSE "eof"

\* data = b''; try: data = stdout.read(numb); except IOError: pass.
\* The length of `data` afterwards.
read_len(w, numb) ==
    IF read_outcome(w) = "data" THEN Min(numb, w.outbuf) ELSE 0

\* recv_raw returning b'' after a failed read, the stream left open.
recv_read_ioerror_empty(w1, numb, sel, raced) ==
    LET rd == read_outcome(w1)
        k == read_len(w1, numb)
    IN  IF rd = "ioerror"
        THEN [Ret(w1, "empty") EXCEPT !.numb = numb, !.sel = sel, !.rd = rd]
        ELSE IF k = 0
        THEN [Ret(shutdown(w1, "recv", raced), "EOFError")
                 EXCEPT !.numb = numb, !.sel = sel, !.rd = rd]
        ELSE [Ret([w1 EXCEPT !.outbuf = @ - k], "data")
                 EXCEPT !.numb = numb, !.n = k, !.sel = sel, !.rd = rd]

\* recv_raw from the read on (select said ready), in the world w1 that
\* poll() left: an empty `data`, whether read returned b'' or raised
\* IOError, shuts the recv direction down and raises EOFError.
recv_read(w1, numb, sel, raced) ==
    LET rd == read_outcome(w1)
        k == read_len(w1, numb)
    IN  IF k = 0
        THEN [Ret(shutdown(w1, "recv", raced), "EOFError")
                 EXCEPT !.numb = numb, !.sel = sel, !.rd = rd]
        ELSE [Ret([w1 EXCEPT !.outbuf = @ - k], "data")
                 EXCEPT !.numb = numb, !.n = k, !.sel = sel, !.rd = rd]

recv_raw(w, numb, sel, raced) ==
    LET w1 == poll(w)
        can == can_recv_raw(w1, sel)
    IN  IF ~connected_raw(w1, "recv")
        THEN [Ret(w1, "EOFError") EXCEPT !.numb = numb]
        ELSE IF can = "EOFError"
        THEN [Ret(w1, "EOFError") EXCEPT !.numb = numb, !.sel = sel]
        ELSE IF can = "False"
        THEN [Ret(w1, "empty") EXCEPT !.numb = numb, !.sel = sel]
        ELSE recv_read(w1, numb, sel, raced)

\* --------------------------------------------------------- send_raw
\* stdin.write + flush: fails with IOError (EPIPE) once the child no longer
\* reads.
send_raw(w) ==
    LET w1 == poll(w)
    IN  IF ~connected_raw(w1, "send") THEN Ret(w1, "EOFError")
        ELSE IF w1.in_open THEN Ret([w1 EXCEPT !.written = @ + 1], "ok")
        ELSE Ret(w1, "EOFError")

\* ------------------------------------------------------ the handle's calls
Raced == {None} \cup {Some(c) : c \in ExitCodes}
Timeouts == {"None", "finite"}

\* The record kept of a call.
Call(op, arg, r, pre) ==
    [op |-> op, arg |-> arg, out |-> r.out, numb |-> r.numb, n |-> r.n, rv |-> r.rv,
     sel |-> r.sel, rd |-> r.rd, pre |-> pre]

\* A step of the child is no call of the handle.
NoCall(w) == Call("child", "-", Ret(w, "-"), w)

Spawned == proc = "Popen"
LaunchIdle == UNCHANGED <<launchVars, helperVars>>

Poll ==
    \E block \in BOOLEAN :
        /\ Spawned
        \* block: wait_for_close() returns once connected_raw('any') is false
        /\ block => poll_result(World) # None
        /\ LET w == poll(World)
               rv == poll_result(World)
           IN  /\ SetWorld(w)
               /\ last' = Call("poll", IF block THEN "block" ELSE "-",
                               [Ret(w, "ok") EXCEPT !.rv = rv], World)
               /\ seen' = IF seen = None THEN rv ELSE seen
        /\ UNCHANGED intervened
        /\ LaunchIdle

RecvRaw ==
    \E numb \in 1..MaxNumb, timeout \in Timeouts, raced \in Raced :
    \E sel \in select_outcomes(poll(World), timeout) :
        /\ Spawned
        /\ LET r == recv_raw(World, numb, sel, raced)
           IN  /\ SetWorld(r.w)
               /\ last' = Call("recv_raw", timeout, r, World)
        /\ UNCHANGED <<seen, intervened>>
        /\ LaunchIdle

SendRaw ==
    /\ Spawned
    /\ LET r == send_raw(World)
       IN  /\ r.w.written <= MaxSent
           /\ SetWorld(r.w)
           /\ last' = Call("send_raw", "-", r, World)
    /\ UNCHANGED <<seen, intervened>>
    /\ LaunchIdle

CanRecvRaw ==
    \E timeout \in Timeouts :
    \E sel \in select_outcomes(World, timeout) :
        /\ Spawned
        \* select is reached only with stdout open
        /\ last' = Call("can_recv_raw", timeout,
                        [Ret(World, can_recv_raw(World, sel))
                            EXCEPT !.sel = IF stdout_closed THEN "-" ELSE sel],
                        World)
        /\ UNCHANGED <<handleVars, childVars, notes, signals, written, seen, intervened>>
        /\ LaunchIdle

ConnectedRaw ==
    \E direction \in {"any", "send", "recv"} :
        /\ Spawned
        /\ LET w == IF direction = "any" THEN poll(World) ELSE World
               ans == IF connected_raw(World, direction) THEN "True" ELSE "False"
           IN  /\ SetWorld(w)
               /\ last' = Call("connected_raw", direction, Ret(w, ans), World)
        /\ UNCHANGED <<seen, intervened>>
        /\ LaunchIdle

ShutdownRaw ==
    \E direction \in {"send", "recv"}, raced \in Raced :
        /\ Spawned
        /\ LET w == shutdown_raw(World, direction, raced)
           IN  /\ SetWorld(w)
               /\ last' = Call("shutdown_raw", direction, Ret(w, "ok"), World)
        /\ intervened' = (intervened \/ direction = "recv")
        /\ UNCHANGED seen
        /\ LaunchIdle

Close ==
    \E raced \in Raced :
        /\ LET w == close(World, raced)
           IN  /\ SetWorld(w)
               /\ last' = Call("close", "-", Ret(w, "ok"), World)
        /\ intervened' = TRUE
        /\ UNCHANGED seen
        /\ LaunchIdle

Kill ==
    \E raced \in Raced :
        /\ LET w == kill(World, raced)
           IN  /\ SetWorld(w)
               /\ last' = Call("kill", "-", Ret(w, "ok"), World)
        /\ intervened' = TRUE
        /\ UNCHANGED seen
        /\ LaunchIdle

\* ------------------------------------------------------------- the child
ChildStep(w) ==
    /\ SetWorld(w)
    /\ last' = NoCall(w)
    /\ UNCHANGED <<seen, intervened>>
    /\ LaunchIdle

\* The child writes a byte to its output.
ChildWrite ==
    /\ child = "running" /\ out_open /\ ~stdout_closed /\ outbuf < MaxBuf
    /\ ChildStep([World EXCEPT !.outbuf = @ + 1])

\* The child closes its output and goes on running.
ChildCloseOut ==
    /\ child = "running" /\ out_open
    /\ ChildStep([World EXCEPT !.out_open = FALSE])

\* The child exits by itself: its descriptors close, and it stays a zombie
\* until it is waited for.
ChildExit ==
    \E code \in ExitCodes :
        /\ child = "running"
        /\ ChildStep([World EXCEPT !.child = "zombie", !.child_status = code,
                                   !.out_open = FALSE, !.in_open = FALSE])

\* ------------------------------------------------------------------ Spec
\* The handle as the constructor leaves it: a spawned child with stdin and
\* stdout streams, stderr a stream or not; or, when the constructor raised,
\* no proc at all (close() is all that can then be called).
InitWorlds ==
    {[proc |-> "Popen", stdin_closed |-> FALSE, stdout_closed |-> FALSE,
      stderr |-> e, returncode |-> None, stop_noticed |-> FALSE,
      child |-> "running", child_status |-> 0, outbuf |-> 0,
      out_open |-> TRUE, in_open |-> TRUE, stdout_kind |-> k,
      killable |-> b, notes |-> 0, signals |-> 0, written |-> 0]
        : e \in {"none", "open"}, k \in {"pipe", "pty"}, b \in BOOLEAN}
    \cup
    {[proc |-> "None", stdin_closed |-> FALSE, stdout_closed |-> FALSE,
      stderr |-> "none", returncode |-> None, stop_noticed |-> FALSE,
      child |-> "absent", child_status |-> 0, outbuf |-> 0,
      out_open |-> FALSE, in_open |-> FALSE, stdout_kind |-> "pipe",
      killable |-> FALSE, notes |-> 0, signals |-> 0, written |-> 0]}

\* A mapping object: Python compares dicts by content and tells them apart
\* by identity; `id` names the object, `items` lists its entries in order.
Mapping(id, items) == [id |-> id, items |-> items]

ValidateOff ==
    /\ v_pc = "off"
    /\ v_in = [argv |-> <<>>, env |-> None]
    /\ v_argv = <<>>
    /\ v_env = None
    /\ v_environ = Mapping("environ", <<>>)
    /\ v_error = None

PreexecOff ==
    /\ p_pc = "off"
    /\ p_pty = FALSE
    /\ p_aslr = TRUE
    /\ p_setuid = "None"
    /\ p_linux = TRUE
    /\ p_tty = "none"
    /\ p_fail = {}
    /\ p_trace = <<>>
    /\ p_raised = None

\* leak not called: no outcome yet.
NoLeak == [out |-> "-", n |-> 0, mem_read |-> FALSE]

LeakOff ==
    /\ k_pc = "off"
    /\ k_qemu = FALSE
    /\ k_count = 0
    /\ k_avail = 0
    /\ k_io = "ok"
    /\ k_result = NoLeak

HelpersOff == ValidateOff /\ PreexecOff /\ LeakOff

\* The three stream slots, in the order of `handles = (stdin, stdout, stderr)`.
Slots == <<"stdin", "stdout", "stderr">>
SlotSet == {"stdin", "stdout", "stderr"}

\* The constructor's defaults: stdin=PIPE, stdout=PTY, stderr=STDOUT.
DefaultSelectors == [stdin |-> "PIPE", stdout |-> "PTY", stderr |-> "STDOUT"]
NoStreams == [slot \in SlotSet |-> "None"]

\* The pty state before `handles` is built.
PtyStart ==
    /\ l_pty = None
    /\ l_handles = l_sel
    /\ l_master = None
    /\ l_slave = None
    /\ l_streams = NoStreams
    /\ l_open = {}
    /\ l_log = <<>>

LaunchOff ==
    /\ l_sel = DefaultSelectors
    /\ PtyStart
    /\ l_pc = "off"
    /\ l_mode = "shell"
    /\ l_qemu = FALSE
    /\ l_outcome = [c \in {"native", "qemu"} |-> "ok"]
    /\ l_prefixes = <<>>
    /\ l_next = 0
    /\ l_attempts = <<>>
    /\ l_exception = None
    /\ l_raised = None

Init ==
    /\ \E w \in InitWorlds :
        /\ proc = w.proc
        /\ stdin_closed = w.stdin_closed
        /\ stdout_closed = w.stdout_closed
        /\ stderr = w.stderr
        /\ returncode = w.returncode
        /\ stop_noticed = w.stop_noticed
        /\ child = w.child
        /\ child_status = w.child_status
        /\ outbuf = w.outbuf
        /\ out_open = w.out_open
        /\ in_open = w.in_open
        /\ stdout_kind = w.stdout_kind
        /\ killable = w.killable
        /\ notes = w.notes
        /\ signals = w.signals
        /\ written = w.written
        /\ last = Call("init", "-", Ret(w, "-"), w)
    /\ seen = None
    /\ intervened = FALSE
    /\ LaunchOff
    /\ HelpersOff

Next ==
    \/ Poll
    \/ RecvRaw
    \/ SendRaw
    \/ CanRecvRaw
    \/ ConnectedRaw
    \/ ShutdownRaw
    \/ Close
    \/ Kill
    \/ ChildWrite
    \/ ChildCloseOut
    \/ ChildExit

Spec == Init /\ [][Next]_vars


\* ============================================================ __init__
\* What Popen can do with a candidate: succeed, or raise OSError with
\* ENOEXEC (exec format error) or with another errno.
SpawnOutcomes == {"ok", "ENOEXEC", "ENOENT", "EACCES"}

\* The candidate list: the native executable with no prefix, then the
\* emulator if get_qemu_user() returned one (its failure is swallowed).
candidates(qemu) == IF qemu THEN <<"native", "qemu">> ELSE <<"native">>

\* The loop without its `raise`: every OSError moves on to the next candidate.
is_fatal_never(errno) == FALSE

\* `if exception.errno != errno.ENOEXEC: raise`
is_fatal(errno) == errno # "ENOEXEC"

\* self.exception(...) called in an except block: logs, then re-raises the
\* exception being handled.
exception_reraises(exc) == exc

RuntimeIdle == UNCHANGED <<handleVars, childVars, histVars, helperVars>>

\* The values the stream arguments take. stderr=STDOUT is Popen's request
\* to share stdout's destination.
Selectors ==
    {sel \in [SlotSet -> {"PIPE", "PTY", "FD", "STDOUT"}] :
        sel.stdin # "STDOUT" /\ sel.stdout # "STDOUT"}

\* `if stderr is STDOUT: stderr = stdout`
stderr_is_stdout(sel) ==
    [sel EXCEPT !.stderr = IF @ = "STDOUT" THEN sel.stdout ELSE @]

\* handles.index(PTY) if PTY in handles else None
pty_index(handles) ==
    IF \E i \in 1..Len(Slots) : handles[Slots[i]] = "PTY"
    THEN Some(Slots[CHOOSE i \in 1..Len(Slots) :
                     /\ handles[Slots[i]] = "PTY"
                     /\ \A j \in 1..(i - 1) : handles[Slots[j]] # "PTY"])
    ELSE None

\* The test written as `if self.pty:`, index 0 (stdin) counting as false.
pty_requested_truthy(pty) == pty # None /\ pty # Some("stdin")

\* `if self.pty is not None`
pty_requested(pty) == pty # None

\* The record of a descriptor call.
FdCall(op, fd, new) == [op |-> op, fd |-> fd, new |-> new]

\* _handles(stdin, stdout, stderr): with a pty requested, one openpty()
\* and the slave put in every slot that holds PTY; master and slave are
\* None otherwise.
_handles(pty, handles, open, log) ==
    IF pty_requested(pty)
    THEN [handles |-> [slot \in SlotSet |->
                         IF handles[slot] = "PTY" THEN "slave" ELSE handles[slot]],
          master |-> Some("master"),
          slave |-> Some("slave"),
          open |-> open \cup {"master", "slave"},
          log |-> Append(log, FdCall("openpty", "master", "slave"))]
    ELSE [handles |-> handles, master |-> None, slave |-> None,
          open |-> open, log |-> log]

\* The parent's streams as Popen makes them: a pipe end for PIPE, None for
\* a descriptor handed to the child.
popen_streams(handles) ==
    [slot \in SlotSet |-> IF handles[slot] = "PIPE" THEN "pipe" ELSE "None"]

\* os.dup: the lowest descriptor not open; the duplicates the constructor
\* can make are named in that order.
DupNames == <<"dup1", "dup2", "dup3">>
os_dup(open) ==
    DupNames[CHOOSE i \in 1..Len(DupNames) :
                /\ DupNames[i] \notin open
                /\ \A j \in 1..(i - 1) : DupNames[j] \in open]

\* `if <slot> is slave: self.proc.<slot> = os.fdopen(os.dup(master), ...)`
\* for the slot, on the state st = [streams, open, log].
dup_slot(st, handles, slot, master, slave) ==
    IF handles[slot] = slave
    THEN LET fd == os_dup(st.open)
         IN  [streams |-> [st.streams EXCEPT ![slot] = fd],
              open |-> st.open \cup {fd},
              log |-> Append(st.log, FdCall("dup", master, fd))]
    ELSE st

\* os.close(fd)
os_close(st, fd) ==
    [st EXCEPT !.open = @ \ {fd}, !.log = Append(@, FdCall("close", fd, "-"))]

\* The streams attached to the master itself, no duplicate made.
pty_attach_master(handles, streams, master, slave, open, log) ==
    LET st == [streams |-> [slot \in SlotSet |->
                              IF handles[slot] = slave THEN master ELSE streams[slot]],
               open |-> open, log |-> log]
    IN  os_close(os_close(st, master), slave)

\* Lines 297-305: the three tests in order, then the two closes.
pty_attach(handles, streams, master, slave, open, log) ==
    LET st0 == [streams |-> streams, open |-> open, log |-> log]
        st1 == dup_slot(st0, handles, "stdin", master, slave)
        st2 == dup_slot(st1, handles, "stdout", master, slave)
        st3 == dup_slot(st2, handles, "stderr", master, slave)
    IN  os_close(os_close(st3, master), slave)

\* Lines 215-235: stderr=STDOUT resolved, self.pty found, _handles called.
LHandles ==
    /\ l_pc = "handles"
    /\ LET handles == stderr_is_stdout(l_sel)
           pty == pty_index(handles)
           r == _handles(pty, handles, l_open, l_log)
       IN  /\ l_pty' = pty
           /\ l_handles' = r.handles
           /\ l_master' = r.master
           /\ l_slave' = r.slave
           /\ l_open' = r.open
           /\ l_log' = r.log
    /\ l_pc' = "candidates"
    /\ UNCHANGED <<l_mode, l_qemu, l_outcome, l_prefixes, l_next, l_attempts,
                   l_exception, l_raised, l_sel, l_streams>>
    /\ RuntimeIdle

\* `if not shell: executable, argv, env = self._validate(...)`: a rejected
\* argument ends in log.error, which raises.
LValidate ==
    /\ l_pc = "start"
    /\ IF l_mode = "invalid"
       THEN l_pc' = "raised" /\ l_raised' = Some("PwnlibException")
       ELSE l_pc' = "handles" /\ UNCHANGED l_raised
    /\ UNCHANGED <<l_mode, l_qemu, l_outcome, l_prefixes, l_next, l_attempts,
                   l_exception, ptyVars>>
    /\ RuntimeIdle

\* prefixes = [([], executable)]; exception = None; try: append qemu.
LCandidates ==
    /\ l_pc = "candidates"
    /\ l_prefixes' = candidates(l_qemu)
    /\ l_exception' = None
    /\ l_next' = 1
    /\ l_pc' = "loop"
    /\ UNCHANGED <<l_mode, l_qemu, l_outcome, l_attempts, l_raised, ptyVars>>
    /\ RuntimeIdle

\* One iteration of `for prefix, executable in prefixes`: Popen, then
\* `break`, or the except clause.
LAttempt ==
    /\ l_pc = "loop"
    /\ l_next <= Len(l_prefixes)
    /\ LET c == l_prefixes[l_next]
           o == l_outcome[c]
       IN  /\ l_attempts' = Append(l_attempts, c)
           /\ IF o = "ok"
              THEN /\ l_pc' = "spawned"
                   /\ proc' = "Popen"
                   /\ child' = "running"
                   /\ out_open' = TRUE
                   /\ in_open' = TRUE
                   /\ l_streams' = popen_streams(l_handles)
                   /\ UNCHANGED <<l_exception, l_raised, l_next>>
              ELSE /\ l_exception' = Some(o)
                   /\ IF is_fatal(o)
                      THEN l_pc' = "raised" /\ l_raised' = Some(o)
                                /\ UNCHANGED l_next
                      ELSE l_pc' = "loop" /\ l_next' = l_next + 1
                                /\ UNCHANGED l_raised
                   /\ UNCHANGED <<proc, child, out_open, in_open, l_streams>>
    /\ UNCHANGED <<l_mode, l_qemu, l_outcome, l_prefixes>>
    /\ UNCHANGED <<l_sel, l_pty, l_handles, l_master, l_slave, l_open, l_log>>
    /\ UNCHANGED <<stdin_closed, stdout_closed, stderr, returncode, stop_noticed,
                   child_status, outbuf, stdout_kind, killable, histVars, helperVars>>

\* The loop's `else`: every candidate failed; `raise exception` inside a
\* try whose except calls self.exception.
LExhausted ==
    /\ l_pc = "loop"
    /\ l_next > Len(l_prefixes)
    /\ l_pc' = "raised"
    /\ l_raised' = exception_reraises(l_exception)
    /\ UNCHANGED <<l_mode, l_qemu, l_outcome, l_prefixes, l_next, l_attempts,
                   l_exception, ptyVars>>
    /\ RuntimeIdle

\* `if self.pty is not None:` after the loop: a duplicate of the master for
\* each stream bound to the slave, then os.close(master), os.close(slave).
LPtyDup ==
    /\ l_pc = "spawned"
    /\ LET r == IF pty_requested(l_pty)
                THEN pty_attach(l_handles, l_streams, l_master[1], l_slave[1],
                                l_open, l_log)
                ELSE [streams |-> l_streams, open |-> l_open, log |-> l_log]
       IN  /\ l_streams' = r.streams
           /\ l_open' = r.open
           /\ l_log' = r.log
    /\ l_pc' = "nonblock"
    /\ UNCHANGED <<l_mode, l_qemu, l_outcome, l_prefixes, l_next, l_attempts,
                   l_exception, l_raised>>
    /\ UNCHANGED <<l_sel, l_pty, l_handles, l_master, l_slave>>
    /\ RuntimeIdle

\* The rest of __init__: `fd = self.proc.stdout.fileno()` and the fcntl
\* calls. With stdout passed through, self.proc.stdout is None and the
\* attribute access raises.
LFinish ==
    /\ l_pc = "nonblock"
    /\ IF l_streams.stdout = "None"
       THEN l_pc' = "raised" /\ l_raised' = Some("AttributeError")
       ELSE l_pc' = "done" /\ UNCHANGED l_raised
    /\ UNCHANGED <<l_mode, l_qemu, l_outcome, l_prefixes, l_next, l_attempts,
                   l_exception, ptyVars>>
    /\ RuntimeIdle

\* Before __init__: no proc, and the arguments and the environment
\* (emulator found or not, what each spawn will do) still to be met.
InitLaunch ==
    /\ proc = "None"
    /\ stdin_closed = FALSE
    /\ stdout_closed = FALSE
    /\ stderr = "none"
    /\ returncode = None
    /\ stop_noticed = FALSE
    /\ child = "absent"
    /\ child_status = 0
    /\ outbuf = 0
    /\ out_open = FALSE
    /\ in_open = FALSE
    /\ stdout_kind = "pipe"
    /\ killable = FALSE
    /\ notes = 0
    /\ signals = 0
    /\ written = 0
    /\ seen = None
    /\ intervened = FALSE
    /\ last = Call("init", "-", Ret(World, "-"), World)
    /\ l_pc = "start"
    /\ l_mode \in {"shell", "valid", "invalid"}
    /\ l_qemu \in BOOLEAN
    /\ l_outcome \in [{"native", "qemu"} -> SpawnOutcomes]
    /\ l_prefixes = <<>>
    /\ l_next = 0
    /\ l_attempts = <<>>
    /\ l_exception = None
    /\ l_raised = None
    /\ l_sel \in Selectors
    /\ PtyStart
    /\ HelpersOff

NextLaunch ==
    \/ LValidate
    \/ LHandles
    \/ LCandidates
    \/ LAttempt
    \/ LExhausted
    \/ LPtyDup
    \/ LFinish

SpecLaunch == InitLaunch /\ [][NextLaunch]_vars


\* ============================================================ _validate
\* Strings are sequences of characters; NUL is the null byte, and one other
\* character stands for the rest.
NUL == "NUL"
Chars == {NUL, "a"}
Strings == UNION {[1..n -> Chars] : n \in 0..MaxLen}

\* arg[:-1]
all_but_last(s) == SubSeq(s, 1, Len(s) - 1)

\* null_byte in s
contains_nul(s) == \E i \in 1..Len(s) : s[i] = NUL

\* The test written as `null_byte in arg`.
inappropriate_nul_anywhere(s) == contains_nul(s)

\* `if null_byte in arg[:-1]`
inappropriate_nul(s) == contains_nul(all_but_last(s))

\* s.rstrip(null_byte): every trailing null byte goes.
RECURSIVE rstrip(_)
rstrip(s) ==
    IF Len(s) > 0 /\ s[Len(s)] = NUL THEN rstrip(all_but_last(s)) ELSE s

\* log.error(message) logs the message and raises PwnlibException: the call
\* does not return.
log_error(message) == Some(message)

\* The argv loop: the first entry with a misplaced null byte ends in
\* log.error; otherwise every entry is replaced by its rstrip.
validate_argv(argv) ==
    [error |-> IF \E i \in 1..Len(argv) : inappropriate_nul(argv[i])
               THEN log_error("Inappropriate nulls in argv")
               ELSE None,
     argv |-> [i \in 1..Len(argv) |-> rstrip(argv[i])]]

\* The executable checks: with neither executable nor argv there is nothing
\* to run; a path that `problem` names a defect of is rejected.
validate_executable(given, argv, problem) ==
    IF ~given /\ argv = <<>>
    THEN log_error("Must specify argv or executable")
    ELSE IF problem # "none" THEN log_error(problem) ELSE None

ExecutableProblems ==
    {"none", "does not exist", "is not a file", "is not marked as executable"}

\* `env or os.environ`: None and an empty mapping are both false.
env_or_environ(env, environ) ==
    IF env # None /\ env[1].items # <<>> THEN env[1] ELSE environ

\* env[k] = v on an insertion-ordered dict.
dict_set(items, k, v) ==
    IF \E i \in 1..Len(items) : items[i][1] = k
    THEN [i \in 1..Len(items) |-> IF items[i][1] = k THEN <<k, v>> ELSE items[i]]
    ELSE Append(items, <<k, v>>)

\* for k, v in env_vars: check the key, check the value, store the
\* stripped pair into the new dict (acc).
RECURSIVE env_loop(_, _)
env_loop(env_vars, acc) ==
    IF env_vars = <<>>
    THEN [error |-> None, items |-> acc]
    ELSE LET k == Head(env_vars)[1]
             v == Head(env_vars)[2]
         IN  IF inappropriate_nul(k)
             THEN [error |-> log_error("Inappropriate null byte in env key"),
                   items |-> acc]
             ELSE IF inappropriate_nul(v)
             THEN [error |-> log_error("Inappropriate null byte in env value"),
                   items |-> acc]
             ELSE env_loop(Tail(env_vars), dict_set(acc, rstrip(k), rstrip(v)))

\* env = dict(env or os.environ); env_vars = env.items(); env = {}; the loop.
validate_env(env, environ) ==
    LET copy == Mapping("copy", env_or_environ(env, environ).items)
        r == env_loop(copy.items, <<>>)
    IN  [error |-> r.error, env |-> Mapping("fresh", r.items)]

ValidateIdle ==
    UNCHANGED <<handleVars, childVars, histVars, launchVars, preexecVars, leakVars>>

VArgv ==
    /\ v_pc = "argv"
    /\ LET r == validate_argv(v_argv)
       IN  /\ v_argv' = r.argv
           /\ v_error' = r.error
           /\ v_pc' = IF r.error # None THEN "raised" ELSE "executable"
    /\ UNCHANGED <<v_in, v_env, v_environ>>
    /\ ValidateIdle

VExecutable ==
    \E given \in BOOLEAN, problem \in ExecutableProblems :
        /\ v_pc = "executable"
        /\ v_error' = validate_executable(given, v_argv, problem)
        /\ v_pc' = IF v_error' # None THEN "raised" ELSE "env"
        /\ UNCHANGED <<v_in, v_argv, v_env, v_environ>>
        /\ ValidateIdle

VEnv ==
    /\ v_pc = "env"
    /\ LET r == validate_env(v_env, v_environ)
       IN  /\ v_env' = Some(r.env)
           /\ v_error' = r.error
           /\ v_pc' = IF r.error # None THEN "raised" ELSE "done"
    /\ UNCHANGED <<v_in, v_argv, v_environ>>
    /\ ValidateIdle

\* The arguments _validate is called with: argv a list of none or one
\* string; env None, an empty mapping, a mapping of one entry, or a mapping
\* of two entries whose keys may meet once stripped.
ArgvInputs == {<<>>} \cup {<<s>> : s \in Strings}
FewKeys == {<<"a">>, <<"a", NUL>>, <<"b">>}
FewValues == {<<"a">>, <<"b", NUL>>}
EnvInputs ==
    {None, Some(Mapping("caller", <<>>))}
    \cup {Some(Mapping("caller", <<e>>)) : e \in Strings \X Strings}
    \cup {Some(Mapping("caller", <<e1, e2>>)) :
            e1 \in {e \in FewKeys \X FewValues : e[1] # <<"a">>},
            e2 \in {e \in FewKeys \X FewValues : e[1] = <<"a">>}}
EnvironInputs ==
    {Mapping("environ", <<>>), Mapping("environ", << <<(<<"b">>), (<<"a">>)>> >>)}

\* No handle yet: the state of the handle's variables outside its own
\* specifications.
NoHandle ==
    /\ proc = "None"
    /\ stdin_closed = FALSE
    /\ stdout_closed = FALSE
    /\ stderr = "none"
    /\ returncode = None
    /\ stop_noticed = FALSE
    /\ child = "absent"
    /\ child_status = 0
    /\ outbuf = 0
    /\ out_open = FALSE
    /\ in_open = FALSE
    /\ stdout_kind = "pipe"
    /\ killable = FALSE
    /\ notes = 0
    /\ signals = 0
    /\ written = 0
    /\ seen = None
    /\ intervened = FALSE
    /\ last = Call("init", "-", Ret(World, "-"), World)

InitValidate ==
    /\ NoHandle
    /\ LaunchOff
    /\ PreexecOff
    /\ LeakOff
    /\ v_pc = "argv"
    /\ \E argv \in ArgvInputs, env \in EnvInputs :
        /\ v_in = [argv |-> argv, env |-> env]
        /\ v_argv = argv
        /\ v_env = env
    /\ v_environ \in EnvironInputs
    /\ v_error = None

NextValidate ==
    \/ VArgv
    \/ VExecutable
    \/ VEnv

SpecValidate == InitValidate /\ [][NextValidate]_vars


\* ========================================================== _preexec_fn
\* The calls of _preexec_fn that can raise.
PreexecCalls == {"personality", "stack", "core", "filter", "prctl", "hook"}

\* What can go wrong in _pty_make_controlling_tty: os.ttyname raises; the
\* first open of /dev/tty raises (no controlling terminal to leave);
\* os.setsid raises; /dev/tty can still be opened after setsid; the slave
\* cannot be opened; /dev/tty cannot be opened at the end.
TtyFaults ==
    {"none", "no_old_tty", "ttyname", "setsid", "still_tty", "slave", "devtty"}

\* The routine with its check after setsid left out.
_pty_make_controlling_tty_unchecked(fault) ==
    IF fault \in {"ttyname", "setsid", "slave", "devtty"} THEN Some(fault) ELSE None

\* _pty_make_controlling_tty: the OSError of the first open of /dev/tty is
\* swallowed; the second open must raise OSError, and its success ends in
\* `raise Exception`; every other failing call raises out of the routine.
\* None when it returns, Some(the cause) when it raises.
_pty_make_controlling_tty(fault) ==
    IF fault \in {"ttyname", "setsid", "still_tty", "slave", "devtty"}
    THEN Some(fault)
    ELSE None

\* log.exception("Could not disable ASLR") in the except clause of the
\* ASLR block: the failure is logged and _preexec_fn goes on.
log_exception(failed) == None

\* The block with setrlimit(RLIMIT_STACK) under the test of _setuid too.
aslr_block_all_gated(aslr, linux, setuid, fail) ==
    LET calls == IF aslr \/ ~(linux /\ setuid # "True") THEN <<>>
                 ELSE IF "personality" \in fail THEN <<"personality">>
                 ELSE <<"personality", "stack">>
        failed == {i \in 1..Len(calls) : calls[i] \in fail}
    IN  [calls |-> calls,
         raised |-> IF failed = {} THEN None
                    ELSE log_exception(calls[Len(calls)])]

\* The block under `if not self.aslr`: personality (on Linux, unless
\* _setuid is True), then setrlimit(RLIMIT_STACK), in one try; the first
\* failure leaves the try for the except clause.
aslr_block(aslr, linux, setuid, fail) ==
    LET personality == linux /\ setuid # "True"
        calls == IF aslr THEN <<>>
                 ELSE IF personality /\ "personality" \in fail
                 THEN <<"personality">>
                 ELSE IF personality THEN <<"personality", "stack">>
                 ELSE <<"stack">>
        failed == {i \in 1..Len(calls) : calls[i] \in fail}
    IN  [calls |-> calls,
         raised |-> IF failed = {} THEN None
                    ELSE log_exception(calls[Len(calls)])]

PreexecIdle ==
    UNCHANGED <<handleVars, childVars, histVars, launchVars, validateVars, leakVars>>

\* A block that makes one call outside any try: it raises if the call does.
PreexecCall(call, next) ==
    /\ p_trace' = Append(p_trace, call)
    /\ IF call \in p_fail
       THEN p_pc' = "raised" /\ p_raised' = Some(call)
       ELSE p_pc' = next /\ UNCHANGED p_raised

\* if self.pty is not None: self._pty_make_controlling_tty(self.pty)
PTty ==
    /\ p_pc = "tty"
    /\ IF p_pty
       THEN /\ p_trace' = Append(p_trace, "tty")
            /\ IF _pty_make_controlling_tty(p_tty) # None
               THEN p_pc' = "raised" /\ p_raised' = Some("tty")
               ELSE p_pc' = "aslr" /\ UNCHANGED p_raised
       ELSE p_pc' = "aslr" /\ UNCHANGED <<p_trace, p_raised>>
    /\ UNCHANGED <<p_pty, p_aslr, p_setuid, p_linux, p_tty, p_fail>>
    /\ PreexecIdle

PAslr ==
    /\ p_pc = "aslr"
    /\ LET r == aslr_block(p_aslr, p_linux, p_setuid, p_fail)
       IN  /\ p_trace' = p_trace \o r.calls
           /\ IF r.raised # None
              THEN p_pc' = "raised" /\ p_raised' = r.raised
              ELSE p_pc' = "core" /\ UNCHANGED p_raised
    /\ UNCHANGED <<p_pty, p_aslr, p_setuid, p_linux, p_tty, p_fail>>
    /\ PreexecIdle

\* resource.setrlimit(resource.RLIMIT_CORE, (-1, -1)), in no try.
PCore ==
    /\ p_pc = "core"
    /\ PreexecCall("core", "filter")
    /\ UNCHANGED <<p_pty, p_aslr, p_setuid, p_linux, p_tty, p_fail>>
    /\ PreexecIdle

\* try: write /proc/self/coredump_filter; except Exception: pass
PFilter ==
    /\ p_pc = "filter"
    /\ p_trace' = Append(p_trace, "filter")
    /\ p_pc' = "setuid"
    /\ UNCHANGED <<p_pty, p_aslr, p_setuid, p_linux, p_tty, p_fail, p_raised>>
    /\ PreexecIdle

\* if self._setuid is False: try: prctl(PR_SET_NO_NEW_PRIVS, ...); except: pass
PSetuid ==
    /\ p_pc = "setuid"
    /\ p_trace' = IF p_setuid = "False" THEN Append(p_trace, "prctl") ELSE p_trace
    /\ p_pc' = "hook"
    /\ UNCHANGED <<p_pty, p_aslr, p_setuid, p_linux, p_tty, p_fail, p_raised>>
    /\ PreexecIdle

\* self.preexec_fn()
PHook ==
    /\ p_pc = "hook"
    /\ PreexecCall("hook", "returned")
    /\ UNCHANGED <<p_pty, p_aslr, p_setuid, p_linux, p_tty, p_fail>>
    /\ PreexecIdle

InitPreexec ==
    /\ NoHandle
    /\ LaunchOff
    /\ ValidateOff
    /\ LeakOff
    /\ p_pc = "tty"
    /\ p_pty \in BOOLEAN
    /\ p_aslr \in BOOLEAN
    /\ p_setuid \in {"None", "True", "False"}
    /\ p_linux \in BOOLEAN
    /\ p_tty \in IF p_pty THEN TtyFaults ELSE {"none"}
    /\ p_fail \in SUBSET PreexecCalls
    /\ p_trace = <<>>
    /\ p_raised = None

NextPreexec ==
    \/ PTty
    \/ PAslr
    \/ PCore
    \/ PFilter
    \/ PSetuid
    \/ PHook

SpecPreexec == InitPreexec /\ [][NextPreexec]_vars


\* ================================================================= leak
\* leak(address, count): under qemu-user log.error ends the call before
\* the memory file is opened; otherwise open, seek and read stand in no
\* try, and `mem.read(count) or None` returns what was read, or None for b''.
leak(qemu, count, avail, io) ==
    IF qemu
    THEN [out |-> IF log_error("Cannot use leaker on binaries under QEMU.") # None
                  THEN "raised" ELSE "-",
          n |-> 0, mem_read |-> FALSE]
    ELSE IF io \in {"open", "seek", "read"}
    THEN [out |-> "raised", n |-> 0, mem_read |-> FALSE]
    ELSE LET data == Min(count, avail)
         IN  IF data = 0
             THEN [out |-> "None", n |-> 0, mem_read |-> TRUE]
             ELSE [out |-> "bytes", n |-> data, mem_read |-> TRUE]

Leak ==
    /\ k_pc = "call"
    /\ k_result' = leak(k_qemu, k_count, k_avail, k_io)
    /\ k_pc' = "done"
    /\ UNCHANGED <<k_qemu, k_count, k_avail, k_io>>
    /\ UNCHANGED <<handleVars, childVars, histVars, launchVars, validateVars,
                   preexecVars>>

InitLeak ==
    /\ NoHandle
    /\ LaunchOff
    /\ ValidateOff
    /\ PreexecOff
    /\ k_pc = "call"
    /\ k_qemu \in BOOLEAN
    /\ k_count \in 0..MaxCount
    /\ k_avail \in 0..MaxCount
    /\ k_io \in {"ok", "open", "seek", "read"}
    /\ k_result = NoLeak

NextLeak == Leak

SpecLeak == InitLeak /\ [][NextLeak]_vars

\* ================================================================ claims
\* What a caller can observe of the handle.
Obs(w) ==
    [stdin_closed |-> w.stdin_closed, stdout_closed |-> w.stdout_closed,
     stderr |-> w.stderr, returncode |-> w.returncode,
     stop_noticed |-> w.stop_noticed, notes |-> w.notes, signals |-> w.signals]

Exited(w) == w.child \in {"zombie", "reaped"}

\* C1: direction shutdown is permanent. A send_raw called with stdin closed
\* raises EOFError and writes nothing; a recv_raw called with stdout closed
\* raises EOFError and reads nothing; a closed stream never reopens.
C1_ShutdownPermanent ==
    /\ [](last.op = "send_raw" /\ last.pre.stdin_closed
            => last.out = "EOFError" /\ written = last.pre.written)
    /\ [](last.op = "recv_raw" /\ last.pre.stdout_closed
            => last.out = "EOFError" /\ last.n = 0 /\ last.rd = "-"
               /\ outbuf = last.pre.outbuf)
    /\ [][(stdin_closed => stdin_closed') /\ (stdout_closed => stdout_closed')]_vars

\* A send_raw refused after shutdown_raw('send'), the recv direction still open.
C1_Witness ==
    /\ last.op = "send_raw" /\ last.out = "EOFError"
    /\ last.pre.stdin_closed /\ ~last.pre.stdout_closed
    /\ last.pre.in_open

\* C2: the exit notification fires exactly once. Never more than one is
\* emitted; one has been emitted as soon as the handle holds an exit status
\* (and exactly then the flag is set); a poll() after that changes nothing.
C2_NotifiedOnce ==
    /\ notes <= 1
    /\ returncode # None => notes = 1
    /\ stop_noticed <=> notes = 1
    /\ last.op = "poll" /\ last.pre.stop_noticed => World = last.pre

\* A poll() repeated after the child's own exit was noticed.
C2_Witness ==
    /\ last.op = "poll" /\ last.pre.stop_noticed
    /\ notes = 1 /\ signals = 0 /\ ~stdout_closed

\* C3: close() is idempotent. In every reachable state a second close()
\* leaves what the first left, and close() with no proc changes nothing.
C3_CloseIdempotent ==
    /\ \A r1 \in Raced, r2 \in Raced :
          Obs(close(close(World, r1), r2)) = Obs(close(World, r1))
    /\ proc = "None" => \A r \in Raced : close(World, r) = World
    /\ last.op = "close" /\ last.pre.proc = "None" => World = last.pre

\* A close() that had nothing left to do after a close() that killed.
C3_Witness ==
    /\ last.op = "close" /\ World = last.pre
    /\ signals = 1 /\ returncode = Some(-SIGKILL)

\* C4: the exit status is write-once. Every poll() made after a poll()
\* returned a status returns that status, and the cached status never changes.
C4_ExitStatusWriteOnce ==
    /\ [](last.op = "poll" /\ seen # None => last.rv = seen)
    /\ [](seen # None => returncode = seen)
    /\ [][returncode # None => returncode' = returncode]_vars

\* A poll() after the status was known and the handle was closed since.
C4_Witness ==
    /\ last.op = "poll" /\ last.pre.returncode # None
    /\ seen = Some(1) /\ last.rv = Some(1)
    /\ stdin_closed /\ stdout_closed

\* Both directions shut down.
BothShut(w) == w.stdin_closed /\ w.stdout_closed

C6_TimeoutReturnsEmpty ==
    last.op = "recv_raw" /\ last.sel = "timeout"
        => /\ last.out = "empty" /\ last.n = 0
           /\ stdin_closed = last.pre.stdin_closed
           /\ stdout_closed = last.pre.stdout_closed
           /\ ~stdout_closed
           /\ outbuf = 0
           /\ \A numb \in 1..MaxNumb, r \in Raced :
                recv_raw([World EXCEPT !.outbuf = 1], numb, "ready", r).out = "data"

\* A timed-out recv_raw on a running child that has written nothing.
C6_Witness ==
    /\ last.op = "recv_raw" /\ last.sel = "timeout" /\ last.out = "empty"
    /\ child = "running"

\* C7: no output is lost at child exit. With the child exited and stdout
\* open, recv_raw returns buffered bytes as long as there are any, and
\* raises EOFError exactly when none is left.
C7_NoOutputLost ==
    last.op = "recv_raw" /\ Exited(last.pre) /\ ~last.pre.stdout_closed
        => /\ last.pre.outbuf > 0
              => /\ last.out = "data"
                 /\ last.n = Min(last.numb, last.pre.outbuf)
                 /\ outbuf = last.pre.outbuf - last.n
                 /\ ~stdout_closed
           /\ last.pre.outbuf = 0 => last.out = "EOFError" /\ stdout_closed
           /\ last.out = "EOFError" <=> last.pre.outbuf = 0

\* The last buffered bytes delivered after the child's exit had been noticed.
C7_Witness ==
    /\ last.op = "recv_raw" /\ last.out = "data"
    /\ last.pre.child = "reaped" /\ last.pre.stop_noticed
    /\ last.pre.outbuf = MaxBuf /\ outbuf > 0

\* C9 as stated: a recv_raw whose read failed with an I/O error returns b''
\* and leaves the recv direction connected.
C9_Original ==
    last.op = "recv_raw" /\ last.rd = "ioerror"
        => last.out = "empty" /\ ~stdout_closed

\* C9 amended: a read that fails with an I/O error is handled as a
\* zero-length read is: the recv direction is shut down and EOFError raised.
C9_FailedReadIsEof ==
    last.op = "recv_raw" /\ last.rd \in {"ioerror", "eof"}
        => last.out = "EOFError" /\ last.n = 0 /\ stdout_closed

\* A read failing on the pty master after the child closed the slave.
C9_Witness ==
    /\ last.op = "recv_raw" /\ last.rd = "ioerror" /\ last.out = "EOFError"
    /\ ~last.pre.stdout_closed

\* C10 as stated: can_recv_raw on a closed stdout raises EOFError.
C10_Original ==
    last.op = "can_recv_raw" /\ last.pre.stdout_closed => last.out = "EOFError"

\* C10 amended: can_recv_raw on a closed stdout returns False, raises
\* nothing and changes nothing.
C10_ClosedReturnsFalse ==
    last.op = "can_recv_raw" /\ last.pre.stdout_closed
        => last.out = "False" /\ last.sel = "-" /\ World = last.pre

\* can_recv_raw asked after shutdown_raw('recv').
C10_Witness ==
    /\ last.op = "can_recv_raw" /\ last.pre.stdout_closed
    /\ ~last.pre.stdin_closed

\* The errno Popen raised for the candidate tried last.
LastOutcome == l_outcome[l_attempts[Len(l_attempts)]]
LaunchEnded == l_pc \in {"done", "raised"} /\ l_mode # "invalid"

\* C8: the spawn retry policy. The native executable is tried first and the
\* emulator only second, only if one was found and only after ENOEXEC; no
\* attempt follows a failure with another errno, which is what __init__
\* raises; the emulator is tried whenever one was found and the native
\* attempt gave ENOEXEC; with every candidate failing with ENOEXEC __init__
\* raises the last such error and no proc is left.
C8_RetryPolicy ==
    /\ Len(l_attempts) <= 2
    /\ Len(l_attempts) >= 1 => l_attempts[1] = "native"
    /\ Len(l_attempts) = 2
        => l_attempts[2] = "qemu" /\ l_qemu /\ l_outcome["native"] = "ENOEXEC"
    /\ \A i \in 1..(Len(l_attempts) - 1) : l_outcome[l_attempts[i]] = "ENOEXEC"
    /\ Len(l_attempts) >= 1 /\ LastOutcome \notin {"ok", "ENOEXEC"}
        => l_pc = "raised" /\ l_raised = Some(LastOutcome) /\ proc = "None"
    /\ LaunchEnded
        => /\ Len(l_attempts) >= 1
           /\ l_qemu /\ l_outcome["native"] = "ENOEXEC" => Len(l_attempts) = 2
           /\ l_pc = "done" => LastOutcome = "ok"
           /\ LastOutcome = "ok" <=> proc = "Popen"
           /\ LastOutcome = "ok" /\ l_pc = "raised"
                => l_raised = Some("AttributeError")
           /\ LastOutcome = "ENOEXEC"
                => l_raised = Some("ENOEXEC") /\ Len(l_attempts) = Len(l_prefixes)
    /\ l_mode = "invalid" => l_attempts = <<>>

\* Both candidates tried and both refused with ENOEXEC.
C8_Witness ==
    /\ l_pc = "raised" /\ l_attempts = <<"native", "qemu">>
    /\ l_raised = Some("ENOEXEC")

\* C11: a readiness wait interrupted by a signal answers "not ready":
\* can_recv_raw returns False, and a recv_raw built on it returns b'' with
\* the recv direction still connected; no error is raised.
C11_InterruptedNotReady ==
    /\ last.op = "can_recv_raw" /\ last.sel = "oserror" => last.out = "False"
    /\ last.op = "recv_raw" /\ last.sel = "oserror"
        => last.out = "empty" /\ ~stdout_closed

\* C12: EOFError is raised only for a direction that is not connected when
\* the call returns: stdout is closed after a recv_raw or can_recv_raw that
\* raised it, stdin is closed after a send_raw that raised it.
C12_EofOnlyWhenShut ==
    /\ last.op \in {"recv_raw", "can_recv_raw"} /\ last.out = "EOFError"
        => ~connected_raw(World, "recv")
    /\ last.op = "send_raw" /\ last.out = "EOFError"
        => ~connected_raw(World, "send")

\* C17: a child that ends by itself after shutdown_raw('send') is reported
\* with its own exit code. With the caller calling neither close(), kill()
\* nor shutdown_raw('recv'), a poll() that returns a status returns an exit
\* code of the child, and the handle has sent no termination signal.
C17_OwnExitCode ==
    last.op = "poll" /\ last.pre.stdin_closed /\ ~intervened /\ last.rv # None
        => /\ last.rv \in {Some(c) : c \in ExitCodes}
           /\ signals = 0

\* C18: half-duplex shutdown. shutdown_raw('send') called with stdout open
\* closes stdin only: connected_raw('send') is false, connected_raw('recv')
\* true, no signal is sent, the exit status and the child are as before and
\* recv_raw delivers what the child wrote and writes next. shutdown_raw('recv')
\* called with stdin open closes stdout only, and send_raw still writes to
\* a child that reads.
C18_HalfDuplex ==
    /\ (last.op = "shutdown_raw" /\ last.arg = "send" /\ ~last.pre.stdout_closed)
        => /\ stdin_closed /\ ~stdout_closed
           /\ ~connected_raw(World, "send") /\ connected_raw(World, "recv")
           /\ signals = last.pre.signals
           /\ returncode = last.pre.returncode
           /\ stderr = last.pre.stderr
           /\ child = last.pre.child
           /\ outbuf = last.pre.outbuf
           /\ \A numb \in 1..MaxNumb, r \in Raced :
                LET got == recv_raw([World EXCEPT !.outbuf = IF @ = 0 THEN 1 ELSE @],
                                    numb, "ready", r)
                IN  got.out = "data" /\ got.n >= 1
    /\ (last.op = "shutdown_raw" /\ last.arg = "recv" /\ ~last.pre.stdin_closed)
        => /\ stdout_closed /\ ~stdin_closed
           /\ ~connected_raw(World, "recv") /\ connected_raw(World, "send")
           /\ signals = last.pre.signals
           /\ returncode = last.pre.returncode
           /\ stderr = last.pre.stderr
           /\ child = last.pre.child
           /\ written = last.pre.written
           /\ in_open => send_raw(World).out = "ok"

\* shutdown_raw('send') with the child running and output of it unread.
C18_Witness ==
    /\ last.op = "shutdown_raw" /\ last.arg = "send"
    /\ ~last.pre.stdout_closed /\ ~last.pre.stdin_closed
    /\ outbuf = MaxBuf /\ child = "running"

\* A null byte at a position other than the last.
BadNul(s) == \E i \in 1..Len(s) : s[i] = NUL /\ i # Len(s)
\* The string with its trailing null byte, if it has one, removed.
WithoutLastNul(s) ==
    IF Len(s) > 0 /\ s[Len(s)] = NUL THEN SubSeq(s, 1, Len(s) - 1) ELSE s
NoNul(s) == \A i \in 1..Len(s) : s[i] # NUL
BadEntry(e) == BadNul(e[1]) \/ BadNul(e[2])
EnvErrors == {Some("Inappropriate null byte in env key"),
              Some("Inappropriate null byte in env value")}
\* The entries the env loop went through, once it was reached.
EnvChecked == env_or_environ(v_in.env, v_environ).items
EnvReached == v_pc = "done" \/ v_error \in EnvErrors

\* C13: validation of an argv entry, an environment key or an environment
\* value fails if and only if the string has a null byte at a position
\* other than its last; when it succeeds the string returned is the input
\* without its trailing null byte and holds no null byte.
C13_NulValidation ==
    /\ v_pc \notin {"off", "argv"}
        => /\ v_error = Some("Inappropriate nulls in argv")
                <=> \E i \in 1..Len(v_in.argv) : BadNul(v_in.argv[i])
           /\ v_error # Some("Inappropriate nulls in argv")
                => /\ Len(v_argv) = Len(v_in.argv)
                   /\ \A i \in 1..Len(v_argv) :
                        /\ v_argv[i] = WithoutLastNul(v_in.argv[i])
                        /\ NoNul(v_argv[i])
    /\ EnvReached
        => /\ v_error \in EnvErrors
                <=> \E i \in 1..Len(EnvChecked) : BadEntry(EnvChecked[i])
           /\ v_pc = "done"
                => /\ \A j \in 1..Len(v_env[1].items) :
                        LET e == v_env[1].items[j]
                        IN  /\ NoNul(e[1]) /\ NoNul(e[2])
                            /\ \E i \in 1..Len(EnvChecked) :
                                 /\ e[1] = WithoutLastNul(EnvChecked[i][1])
                                 /\ e[2] = WithoutLastNul(EnvChecked[i][2])
                   /\ \A i \in 1..Len(EnvChecked) :
                        \E j \in 1..Len(v_env[1].items) :
                            v_env[1].items[j][1] = WithoutLastNul(EnvChecked[i][1])

\* A call that succeeded on an argv entry, a key and a value that each end
\* with a null byte.
C13_Witness ==
    /\ v_pc = "done"
    /\ v_in.argv = << <<"a", NUL>> >>
    /\ v_in.env = Some(Mapping("caller", << <<(<<"a", NUL>>), (<<"a", "a", NUL>>)>> >>))
    /\ v_argv = << <<"a">> >>

\* The entries C14 says the result is made of: the caller's when the caller
\* passed a mapping, the ambient environment's when it passed none.
EnvSupplied == IF v_in.env # None THEN v_in.env[1].items ELSE v_environ.items

\* C14: _validate returns a new mapping object, neither the caller's nor
\* os.environ; its entries are the caller's entries, stripped, when the
\* caller passed a mapping, and the ambient entries only when it passed none.
C14_FreshMapping ==
    v_pc = "done"
        => /\ v_env[1].id \notin {"caller", "environ"}
           /\ \A j \in 1..Len(v_env[1].items) :
                \E i \in 1..Len(EnvSupplied) :
                    /\ v_env[1].items[j][1] = rstrip(EnvSupplied[i][1])
                    /\ v_env[1].items[j][2] = rstrip(EnvSupplied[i][2])
           /\ \A i \in 1..Len(EnvSupplied) :
                \E j \in 1..Len(v_env[1].items) :
                    v_env[1].items[j][1] = rstrip(EnvSupplied[i][1])

\* The calls whose failure the specification calls best-effort.
BestEffortCalls == {"personality", "stack", "core", "filter", "prctl"}
Called(call) == \E i \in 1..Len(p_trace) : p_trace[i] = call

\* C15: best-effort child setup never aborts the launch. No failure of
\* ASLR suppression, of raising the core-dump limit, of writing the
\* core-dump filter or of the privilege lockdown leaves _preexec_fn, and
\* once the controlling-tty step is passed the caller's hook is called.
C15_BestEffortNeverAborts ==
    /\ \A call \in BestEffortCalls : p_raised # Some(call)
    /\ p_pc \in {"returned", "raised"} /\ p_raised # Some("tty") => Called("hook")

\* C16: leak(address, count) on a process not under emulation returns
\* exactly count bytes or None, None on an empty, short or failed read, and
\* never raises; under emulation it fails and reads no memory.
C16_LeakAllOrNone ==
    k_pc = "done"
        => /\ ~k_qemu
                => /\ k_result.out \in {"bytes", "None"}
                   /\ k_result.out = "bytes" => k_result.n = k_count
                   /\ k_io # "ok" \/ k_avail < k_count \/ k_count = 0
                        => k_result.out = "None"
           /\ k_qemu => k_result.out = "raised" /\ ~k_result.mem_read

\* The selectors once stderr=STDOUT has taken stdout's, whether any asks
\* for a pty, and the openpty() calls made.
Resolved == [l_sel EXCEPT !.stderr = IF @ = "STDOUT" THEN l_sel.stdout ELSE @]
PtyWanted == \E slot \in SlotSet : Resolved[slot] = "PTY"
OpenptyCalls == {i \in 1..Len(l_log) : l_log[i].op = "openpty"}
HandlesDone ==
    \/ l_pc \in {"candidates", "loop", "spawned", "nonblock", "done"}
    \/ l_pc = "raised" /\ l_mode # "invalid"

\* C19: pty allocation. A pair is allocated if and only if some slot, after
\* stderr=STDOUT took stdout's selector, holds PTY; one pair whatever the
\* number of such slots; each of them resolves to the one slave; every
\* other slot keeps its selector; with no such slot master and slave are None.
C19_PtyAllocation ==
    HandlesDone
        => /\ l_master # None <=> PtyWanted
           /\ l_slave # None <=> PtyWanted
           /\ Cardinality(OpenptyCalls) = IF PtyWanted THEN 1 ELSE 0
           /\ l_pty # None <=> PtyWanted
           /\ \A slot \in SlotSet :
                /\ Resolved[slot] = "PTY"
                    => l_slave # None /\ l_handles[slot] = l_slave[1]
                /\ Resolved[slot] # "PTY"
                    => /\ l_handles[slot] = Resolved[slot]
                       /\ l_slave # None => l_handles[slot] # l_slave[1]
           /\ ~PtyWanted => l_master = None /\ l_slave = None /\ l_open = {}

\* stdin and stdout both ask for the pty, stderr is passed through.
C19_Witness ==
    /\ HandlesDone
    /\ l_sel = [stdin |-> "PTY", stdout |-> "PTY", stderr |-> "FD"]
    /\ l_handles.stdin = "slave" /\ l_handles.stderr = "FD"

\* The slots bound to the slave, and the dup and close calls made.
Bound == {slot \in SlotSet : l_slave # None /\ l_handles[slot] = l_slave[1]}
DupCalls == {i \in 1..Len(l_log) : l_log[i].op = "dup"}
CloseCalls(fd) == {i \in 1..Len(l_log) : l_log[i].op = "close" /\ l_log[i].fd = fd}
AfterSpawn ==
    \/ l_pc \in {"nonblock", "done"}
    \/ l_pc = "raised" /\ l_raised = Some("AttributeError")

\* C20: after a successful spawn with a pty, the master has been duplicated
\* once for each slot bound to the slave and each such slot's stream is a
\* duplicate of its own; the other slots' streams are as Popen made them;
\* master and slave were closed once each, after the last duplication, and
\* no stream of the parent is the master or the slave.
C20_PtyDuplicates ==
    AfterSpawn /\ l_pty # None
        => /\ Cardinality(DupCalls) = Cardinality(Bound)
           /\ \A i \in DupCalls : l_log[i].fd = l_master[1]
           /\ \A slot \in Bound :
                /\ \E i \in DupCalls : l_log[i].new = l_streams[slot]
                /\ l_streams[slot] \in l_open
           /\ \A s1 \in Bound, s2 \in Bound :
                s1 # s2 => l_streams[s1] # l_streams[s2]
           /\ \A slot \in SlotSet \ Bound :
                l_streams[slot] = IF l_handles[slot] = "PIPE" THEN "pipe" ELSE "None"
           /\ Cardinality(CloseCalls(l_master[1])) = 1
           /\ Cardinality(CloseCalls(l_slave[1])) = 1
           /\ \A i \in DupCalls :
                \A j \in CloseCalls(l_master[1]) \cup CloseCalls(l_slave[1]) : i < j
           /\ l_master[1] \notin l_open /\ l_slave[1] \notin l_open
           /\ \A slot \in SlotSet : l_streams[slot] \notin {l_master[1], l_slave[1]}

\* The default wiring: stdin a pipe, stdout and stderr on the pty.
C20_Witness ==
    /\ l_pc = "done" /\ l_sel = DefaultSelectors
    /\ Cardinality(Bound) = 2
    /\ l_streams.stdin = "pipe" /\ l_streams.stdout # l_streams.stderr

\* The order of the steps of the pre-exec routine.
StepOrder == <<"tty", "personality", "stack", "core", "filter", "prctl", "hook">>
Rank(call) == CHOOSE i \in 1..Len(StepOrder) : StepOrder[i] = call

\* C21: the pre-exec routine makes its calls in the fixed order controlling
\* terminal (only with a pty, and then first), ASLR, core dump, privilege
\* lockdown, hook, the hook last; when the controlling terminal cannot be
\* established (/dev/tty still opens after setsid, or the slave or /dev/tty
\* cannot be opened) the routine raises and makes no later call.
C21_StepOrder ==
    /\ \A i \in 1..Len(p_trace), j \in 1..Len(p_trace) :
          i < j => Rank(p_trace[i]) < Rank(p_trace[j])
    /\ Called("tty") => p_pty
    /\ p_pty /\ p_pc # "tty" => p_trace[1] = "tty"
    /\ Called("hook") => p_trace[Len(p_trace)] = "hook" /\ p_pc \in {"returned", "raised"}
    /\ p_pc = "returned" => Called("hook") /\ Called("core") /\ Called("filter")
    /\ p_pty /\ p_pc # "tty" /\ p_tty \in {"still_tty", "slave", "devtty"}
        => p_pc = "raised" /\ p_raised = Some("tty") /\ p_trace = <<"tty">>

\* /dev/tty still opens after setsid: the routine raised at its first step.
C21_Witness ==
    /\ p_pty /\ p_tty = "still_tty" /\ p_pc = "raised"
    /\ ~p_aslr /\ p_setuid = "False" /\ p_fail = {}

\* The ASLR block is behind.
AslrBlockDone == p_pc \in {"core", "filter", "setuid", "hook", "returned"}
                    \/ (p_pc = "raised" /\ p_raised # Some("tty"))

\* C22 as stated: personality and the stack-limit call are attempted only
\* with ASLR disabled and _setuid other than True.
C22_Original ==
    \A call \in {"personality", "stack"} :
        Called(call) => ~p_aslr /\ p_setuid # "True"

\* C22 amended: with ASLR enabled neither call is attempted. With ASLR
\* disabled, personality is attempted exactly on Linux with _setuid other
\* than True, and the stack limit is uncapped whatever _setuid is, unless
\* the personality call raised.
C22_AslrGating ==
    /\ p_aslr => ~Called("personality") /\ ~Called("stack")
    /\ AslrBlockDone
        => /\ Called("personality") <=> ~p_aslr /\ p_linux /\ p_setuid # "True"
           /\ Called("stack")
                <=> ~p_aslr /\ ~(Called("personality") /\ "personality" \in p_fail)

\* ASLR disabled for a target treated as setuid: the stack limit only.
C22_Witness ==
    /\ AslrBlockDone /\ ~p_aslr /\ p_setuid = "True" /\ p_linux
    /\ Called("stack") /\ ~Called("personality")

\* The last call sent a termination signal.
Signalled == signals # last.pre.signals
\* What the status refresh at the start of close() found in the world the
\* call started from.
NothingObserved(w) == poll(w).returncode = None /\ ~poll(w).stop_noticed

ConstructorEnded == l_pc \in {"done", "raised"}

\* C24: no pty descriptor leaks from construction. When the constructor
\* has returned or raised, neither the master nor the slave it opened is
\* open in the parent; and a validation failure comes before any pty is
\* allocated and any spawn attempted.
C24_NoPtyLeak ==
    /\ ConstructorEnded
        => /\ l_master # None => l_master[1] \notin l_open
           /\ l_slave # None => l_slave[1] \notin l_open
    /\ l_mode = "invalid"
        => l_log = <<>> /\ l_attempts = <<>> /\ l_master = None /\ l_slave = None

====
